---- MODULE Spec2Model ----
(***************************************************************************)
(* A model of the hammer technology abstraction                            *)
(* (src/hammer-tech/hammer_tech.py): one HammerTechnology object with its  *)
(* technology document (installs, tarballs), its settings database, its    *)
(* cache directory, one Library with its extra_prefixes, and the part of   *)
(* the filesystem those operations read and write.                         *)
(*                                                                         *)
(* A path string is a sequence of one-character strings; "extracted" is    *)
(* kept as one token (it holds no separator, and nothing in the code looks *)
(* inside it).  The logger is taken to be set: its calls are recorded in   *)
(* the log of the call and never fail.                                     *)
(***************************************************************************)
EXTENDS Integers, Sequences, FiniteSets, TLC

\* ---------------------------------------------------------------- bounds
\* Longest path string passed to prepend_dir_path.
MaxPathLen == 3
\* Most path sources in play at once: the installs and tarballs of the
\* technology document plus the extra prefixes of the library.
MaxSources == 2

\* --------------------------------------------------------------- strings
Sep == "/"

PathChars == {Sep, "a"}

SeqsUpTo(S, n) == UNION {[1..k -> S] : k \in 0..n}

\* The path arguments of prepend_dir_path, the empty string included.
Paths == SeqsUpTo(PathChars, MaxPathLen)

\* First index of the separator in s, or 0.
FindSep(s) ==
  IF \E i \in 1..Len(s) : s[i] = Sep
  THEN CHOOSE i \in 1..Len(s) : s[i] = Sep /\ \A j \in 1..(i - 1) : s[j] # Sep
  ELSE 0

\* str.split(os.path.sep): the segments between separators, at least one.
RECURSIVE split(_)
split(s) ==
  LET i == FindSep(s)
  IN  IF i = 0 THEN <<s>>
      ELSE <<SubSeq(s, 1, i - 1)>> \o split(SubSeq(s, i + 1, Len(s)))

\* posixpath.join of two components.
join2(a, b) ==
  IF Len(b) > 0 /\ b[1] = Sep THEN b
  ELSE IF Len(a) = 0 \/ a[Len(a)] = Sep THEN a \o b
  ELSE a \o <<Sep>> \o b

\* posixpath.join(*parts) for one or more components.
RECURSIVE join_from(_, _)
join_from(acc, parts) ==
  IF parts = <<>> THEN acc ELSE join_from(join2(acc, Head(parts)), Tail(parts))

\* os.path.join(*parts): called with no component it raises TypeError.
os_path_join(parts) ==
  IF parts = <<>>
  THEN [err |-> "TypeError:join", value |-> <<>>]
  ELSE [err |-> "none", value |-> join_from(Head(parts), Tail(parts))]

\* ------------------------------------------------------------ the world
\* First segments the technology document and the library answer for.
Segs == {<<"a">>, <<"b">>}

\* Settings keys, and the value the settings database holds for each.
Keys == {"V", "W"}
SettingValue(k) == IF k = "V" THEN <<Sep, "x">> ELSE <<Sep, "y">>

\* The technology folder, the cache directory and the library's own root.
TechPath == <<Sep, "t">>
CacheDirs == {<<Sep, "c">>}
PrefixPaths == {<<Sep, "u">>}
Extracted == <<"extracted">>

InstallDecls == [path : Segs, base_var : {""} \cup Keys]
TarballDecls == [path : Segs, base_var : {"", "V"}]
PathPrefixes == [prefix : Segs, path : PrefixPaths]

\* A field of the document that is absent reads as None.
None == [declared |-> FALSE, items |-> <<>>]
Declared(s) == [declared |-> TRUE, items |-> s]

Databases == {[k \in K |-> SettingValue(k)] : K \in SUBSET Keys}

VARIABLES
  installs,     \* self.config.installs
  tarballs,     \* self.config.tarballs
  path,         \* self.path, the technology folder
  database,     \* self._database: whether set, and the keys it holds
  cachedir,     \* self._cachedir: whether set, and its value
  extra_prefixes, \* the library's __donttouch_extra_prefixes
  fs,           \* the directories that exist on disk
  tarRuns,      \* how often tar has been run into each target directory
  chmodRuns,    \* how often chmod has been run on each target directory
  ret,          \* the last call: its arguments, result and effects
  cli           \* the last run of the command-line driver's main

vars == <<installs, tarballs, path, database, cachedir, extra_prefixes, fs,
          tarRuns, chmodRuns, ret, cli>>

\* ------------------------------------------------------------ filesystem
\* The path itself and every ancestor directory named in it.
Ancestors(p) ==
  {SubSeq(p, 1, i) : i \in {j \in 1..Len(p) :
      p[j] # Sep /\ (j = Len(p) \/ p[j + 1] = Sep)}}

\* os.makedirs(p, exist_ok=True)
makedirs(dirs, p) == dirs \cup Ancestors(p)

\* os.path.exists(p), os.path.isdir(p): every entry of fs is a directory.
exists(dirs, p) == p \in dirs
isdir(dirs, p) == p \in dirs

\* The directories the operations can name.
TargetDirs == {join2(join2(c, Extracted), s) : c \in CacheDirs, s \in Segs}

\* ------------------------------------------------------ settings, cache
\* HammerDatabase.get(key): the value of a key the database holds.
DatabaseGet(map, key) ==
  IF key \in DOMAIN map
  THEN [err |-> "none", value |-> map[key]]
  ELSE [err |-> "SettingNotFoundError", value |-> <<>>]

\* HammerTechnology.get_setting
get_setting(key) ==
  IF ~database.set
  THEN [err |-> "ValueError:no_database", value |-> <<>>]
  ELSE DatabaseGet(database.map, key)

\* HammerTechnology.cache_dir (getter)
cache_dir ==
  IF ~cachedir.set
  THEN [err |-> "ValueError:no_cache_dir", value |-> <<>>]
  ELSE [err |-> "none", value |-> cachedir.dir]

\* HammerTechnology.extracted_tarballs_dir
extracted_tarballs_dir ==
  IF cache_dir.err # "none" THEN cache_dir
  ELSE [err |-> "none", value |-> join2(cache_dir.value, Extracted)]

\* PathPrefix.prepend
PathPrefix_prepend(prefix, rest_of_path) == join2(prefix.path, rest_of_path)

\* Library.extra_prefixes (getter): a copy of the list the library holds.
get_extra_prefixes == extra_prefixes

\* ---------------------------------------------------------------- calls
\* What a call has done so far: nothing returned, nothing looked up, nothing
\* logged, and the disk as the call found it.
Out0 ==
  [err |-> "none", value |-> <<>>, bool |-> "None", lookups |-> <<>>,
   cacheRead |-> FALSE, trace |-> <<>>, log |-> <<>>, calls |-> <<>>,
   fs |-> fs, tarRuns |-> tarRuns, chmodRuns |-> chmodRuns]

Raise(out, e) == [out EXCEPT !.err = e]
Return(out, v) == [out EXCEPT !.value = v]

\* self.get_setting(key) inside a call: the key is recorded as looked up.
Lookup(out, key) ==
  LET r == get_setting(key)
      o == [out EXCEPT !.lookups = Append(@, key)]
  IN  IF r.err # "none" THEN Raise(o, r.err) ELSE Return(o, r.value)

\* self.extracted_tarballs_dir inside a call: the cache directory is read.
ExtractedDir(out) ==
  LET r == extracted_tarballs_dir
      o == [out EXCEPT !.cacheRead = TRUE]
  IN  IF r.err # "none" THEN Raise(o, r.err) ELSE Return(o, r.value)

\* ------------------------------------------------------ prepend_dir_path
\* is_absolute with the test for an absolute path lost.
is_absolute_never(p) == FALSE

\* line 335: an absolute path
is_absolute(p) == p[1] = Sep

\* lines 341-349: the installs, or the tarballs, that answer for base_path
matching(decls, base_path) ==
  LET Test(d) == d.path = base_path
  IN  IF decls.declared THEN SelectSeq(decls.items, Test) ELSE <<>>

\* prefixes_in_scope reading the library's prefixes when no library is passed.
prefixes_in_scope_any(lib) == get_extra_prefixes

\* lines 352-353: the extra prefixes in scope, those of the library passed
prefixes_in_scope(lib) == IF lib THEN get_extra_prefixes ELSE <<>>

\* line 354
matching_prefixes(lib, base_path) ==
  LET Test(q) == q.prefix = base_path
  IN  SelectSeq(prefixes_in_scope(lib), Test)

\* match_error with the two failures merged into one test, matches != 1.
match_error_merged(matches) ==
  IF matches # 1 THEN "ValueError:no_match" ELSE "none"

\* lines 357-360: the error the number of matches raises
match_error(matches) ==
  IF matches < 1 THEN "ValueError:no_match"
  ELSE IF matches > 1 THEN "ValueError:multiple_match"
  ELSE "none"

\* install_base looking every base_var up, the empty one too.
install_base_always_lookup(install) == Lookup(Out0, install.base_var)

\* lines 364-367: the base directory of an install
install_base(install) ==
  IF install.base_var = "" THEN Return(Out0, path)
  ELSE Lookup(Out0, install.base_var)

\* resolve_install creating the directory it returns.
resolve_install_mkdir(install, rest_of_path) ==
  LET base == install_base(install)
      joined == os_path_join(<<base.value>> \o rest_of_path).value
  IN  IF base.err # "none" THEN base
      ELSE Return([base EXCEPT !.fs = makedirs(@, joined)], joined)

\* lines 363-368: the path matched one install
resolve_install(install, rest_of_path) ==
  LET base == install_base(install)
  IN  IF base.err # "none" THEN base
      ELSE Return(base, os_path_join(<<base.value>> \o rest_of_path).value)

\* resolve_tarball creating the extraction directory before it returns.
resolve_tarball_extracting(tarball, p) ==
  LET dir == ExtractedDir(Out0)
      target_path == join2(dir.value, tarball.path)
      made == [dir EXCEPT !.fs = makedirs(@, target_path),
                          !.trace = Append(@, [step |-> "makedirs",
                                               target |-> target_path,
                                               src |-> <<>>])]
  IN  IF dir.err # "none" THEN dir ELSE Return(made, join2(dir.value, p))

\* line 370: the path matched one tarball
resolve_tarball(tarball, p) ==
  LET dir == ExtractedDir(Out0)
  IN  IF dir.err # "none" THEN dir ELSE Return(dir, join2(dir.value, p))

\* lines 372-373: the path matched one extra prefix
resolve_prefix(matched, rest_of_path) ==
  LET rest == os_path_join(rest_of_path)
  IN  IF rest.err # "none" THEN Raise(Out0, rest.err)
      ELSE Return(Out0, PathPrefix_prepend(matched, rest.value))

\* HammerTechnology.prepend_dir_path(path, lib)
prepend_dir_path(p, lib) ==
  IF Len(p) = 0 THEN Raise(Out0, "AssertionError")
  ELSE IF is_absolute(p) THEN Return(Out0, p)
  ELSE
    LET base_path == split(p)[1]
        rest_of_path == Tail(split(p))
        matching_installs == matching(installs, base_path)
        matching_tarballs == matching(tarballs, base_path)
        matching_extra_prefixes == matching_prefixes(lib, base_path)
        matches == Len(matching_installs) + Len(matching_tarballs)
                     + Len(matching_extra_prefixes)
    IN  IF match_error(matches) # "none" THEN Raise(Out0, match_error(matches))
        ELSE IF Len(matching_installs) = 1
          THEN resolve_install(matching_installs[1], rest_of_path)
        ELSE IF Len(matching_tarballs) = 1
          THEN resolve_tarball(matching_tarballs[1], p)
        ELSE resolve_prefix(matching_extra_prefixes[1], rest_of_path)

\* -------------------------------------------------------- check_installs
\* check_install without the special case of a blank base_var.
check_install_no_blank(out, install) ==
  LET got == Lookup(out, install.base_var)
  IN  IF got.err # "none" THEN got
      ELSE IF ~exists(got.fs, got.value)
        THEN [got EXCEPT !.bool = "False",
                         !.log = Append(@, [level |-> "error",
                                            what |-> "installs does not exist",
                                            arg |-> got.value])]
      ELSE got

\* lines 390-399: one install of the loop; bool becomes "False" on return
check_install(out, install) ==
  IF install.base_var = "" THEN out
  ELSE
    LET got == Lookup(out, install.base_var)
    IN  IF got.err # "none" THEN got
        ELSE IF ~exists(got.fs, got.value)
          THEN [got EXCEPT !.bool = "False",
                           !.log = Append(@, [level |-> "error",
                                              what |-> "installs does not exist",
                                              arg |-> got.value])]
        ELSE got

\* lines 389-400: the loop from install i on
RECURSIVE check_installs_from(_, _)
check_installs_from(i, out) ==
  IF i > Len(installs.items) THEN [out EXCEPT !.bool = "True", !.value = <<>>]
  ELSE
    LET step == check_install(out, installs.items[i])
    IN  IF step.err # "none" \/ step.bool = "False"
        THEN [step EXCEPT !.value = <<>>]
        ELSE check_installs_from(i + 1, step)

\* HammerTechnology.check_installs
check_installs ==
  LET out == [Out0 EXCEPT !.calls = Append(@, "check_installs")]
  IN  IF ~installs.declared THEN Raise(out, "TypeError:None")
      ELSE check_installs_from(1, out)

\* ------------------------------------------------------ extract_tarballs
\* The exit status of the external tar and chmod: `fail` names the step that
\* exits non-zero in this call, if it is reached.
NoFailure == [seg |-> <<>>, step |-> "none"]
Failures == {NoFailure} \cup [seg : Segs, step : {"tar", "chmod"}]
exit_status(fail, tarball, step) ==
  IF fail.step = step /\ fail.seg = tarball.path THEN 1 ELSE 0

Did(out, step, target, src) ==
  [out EXCEPT !.trace = Append(@, [step |-> step, target |-> target, src |-> src])]

\* extract_into with a clean-up: a failed step removes what the call made.
extract_into_rollback(out, tarball, tarball_path, target_path, fail) ==
  LET made == Did([out EXCEPT !.fs = makedirs(@, target_path)],
                  "makedirs", target_path, <<>>)
      tar == Did([made EXCEPT !.tarRuns[target_path] = @ + 1],
                 "tar", target_path, tarball_path)
      chmod == Did([tar EXCEPT !.chmodRuns[target_path] = @ + 1],
                   "chmod", target_path, <<>>)
  IN  IF exit_status(fail, tarball, "tar") # 0
        THEN Raise([tar EXCEPT !.fs = out.fs], "CalledProcessError:tar")
      ELSE IF exit_status(fail, tarball, "chmod") # 0
        THEN Raise([chmod EXCEPT !.fs = out.fs], "CalledProcessError:chmod")
      ELSE chmod

\* extract_into with the exit of tar looked at after chmod has run.
extract_into_chmod_anyway(out, tarball, tarball_path, target_path, fail) ==
  LET made == Did([out EXCEPT !.fs = makedirs(@, target_path)],
                  "makedirs", target_path, <<>>)
      tar == Did([made EXCEPT !.tarRuns[target_path] = @ + 1],
                 "tar", target_path, tarball_path)
      chmod == Did([tar EXCEPT !.chmodRuns[target_path] = @ + 1],
                   "chmod", target_path, <<>>)
  IN  IF exit_status(fail, tarball, "tar") # 0
        THEN Raise(chmod, "CalledProcessError:tar")
      ELSE IF exit_status(fail, tarball, "chmod") # 0
        THEN Raise(chmod, "CalledProcessError:chmod")
      ELSE chmod

\* lines 413-415: the target directory is absent
extract_into(out, tarball, tarball_path, target_path, fail) ==
  LET made == Did([out EXCEPT !.fs = makedirs(@, target_path)],
                  "makedirs", target_path, <<>>)
      tar == Did([made EXCEPT !.tarRuns[target_path] = @ + 1],
                 "tar", target_path, tarball_path)
      chmod == Did([tar EXCEPT !.chmodRuns[target_path] = @ + 1],
                   "chmod", target_path, <<>>)
  IN  IF exit_status(fail, tarball, "tar") # 0
        THEN Raise(tar, "CalledProcessError:tar")
      ELSE IF exit_status(fail, tarball, "chmod") # 0
        THEN Raise(chmod, "CalledProcessError:chmod")
      ELSE chmod

\* already_extracted with the test of the target directory lost.
already_extracted_never(out, target_path) == FALSE

\* line 408: the folder already seems to exist
already_extracted(out, target_path) == isdir(out.fs, target_path)

\* tarball_base with the blank base_var of an install: the technology folder.
tarball_base_blank_is_root(out, tarball) ==
  IF tarball.base_var = "" THEN Return(out, path)
  ELSE Lookup(out, tarball.base_var)

\* line 406: self.get_setting(tarball.base_var), whatever the base_var
tarball_base(out, tarball) == Lookup(out, tarball.base_var)

\* lines 405-415: one tarball of the loop
extract_tarball(out, tarball, fail) ==
  LET dir == ExtractedDir(out)
      target_path == join2(dir.value, tarball.path)
      got == tarball_base(dir, tarball)
      tarball_path == join2(got.value, tarball.path)
      logged == [got EXCEPT !.log = Append(@, [level |-> "debug",
                                               what |-> "Extracting/verifying tarball",
                                               arg |-> tarball_path])]
  IN  IF dir.err # "none" THEN dir
      ELSE IF got.err # "none" THEN got
      ELSE IF already_extracted(logged, target_path) THEN logged
      ELSE extract_into(logged, tarball, tarball_path, target_path, fail)

\* lines 404-415: the loop from tarball i on
RECURSIVE extract_tarballs_from(_, _, _)
extract_tarballs_from(i, out, fail) ==
  IF i > Len(tarballs.items) THEN [out EXCEPT !.value = <<>>]
  ELSE
    LET step == extract_tarball(out, tarballs.items[i], fail)
    IN  IF step.err # "none" THEN [step EXCEPT !.value = <<>>]
        ELSE extract_tarballs_from(i + 1, step, fail)

\* HammerTechnology.extract_tarballs
extract_tarballs(fail) ==
  LET out == [Out0 EXCEPT !.calls = Append(@, "extract_tarballs")]
  IN  IF ~tarballs.declared THEN Raise(out, "TypeError:None")
      ELSE extract_tarballs_from(1, out, fail)

\* ----------------------------------------------- extract_technology_files
\* strategy with the two tests in the other order.
strategy_tarballs_first ==
  IF tarballs.declared THEN "extract_tarballs"
  ELSE IF installs.declared THEN "check_installs"
  ELSE "neither"

\* lines 377-383: which of the two the technology runs
strategy ==
  IF installs.declared THEN "check_installs"
  ELSE IF tarballs.declared THEN "extract_tarballs"
  ELSE "neither"

\* HammerTechnology.extract_technology_files
extract_technology_files(fail) ==
  IF strategy = "check_installs" THEN [check_installs EXCEPT !.bool = "None"]
  ELSE IF strategy = "extract_tarballs" THEN extract_tarballs(fail)
  ELSE [Out0 EXCEPT !.log = Append(@, [level |-> "error",
            what |-> "Technology specified neither tarballs or installs",
            arg |-> <<>>])]

\* -------------------------------------------------------------- actions
Called(op, arg, lib, out) ==
  [op |-> op, arg |-> arg, lib |-> lib, err |-> out.err, value |-> out.value,
   bool |-> out.bool, lookups |-> out.lookups, cacheRead |-> out.cacheRead,
   trace |-> out.trace, log |-> out.log, calls |-> out.calls]

Effects(out) ==
  /\ fs' = out.fs
  /\ tarRuns' = out.tarRuns
  /\ chmodRuns' = out.chmodRuns

\* HammerTechnology.set_database
SetDatabase(db) ==
  /\ database' = [set |-> TRUE, map |-> db]
  /\ ret' = Called("set_database", <<>>, FALSE, Out0)
  /\ UNCHANGED <<cli, installs, tarballs, path, cachedir, extra_prefixes, fs,
                 tarRuns, chmodRuns>>

\* The setter with line 186 lost: the location is kept, nothing is made.
SetCacheDir_no_makedirs(value) ==
  /\ cachedir' = [set |-> TRUE, dir |-> value]
  /\ ret' = Called("cache_dir", value, FALSE, Out0)
  /\ UNCHANGED <<cli, installs, tarballs, path, database, extra_prefixes, fs,
                 tarRuns, chmodRuns>>

\* HammerTechnology.cache_dir (setter)
SetCacheDir(value) ==
  /\ cachedir' = [set |-> TRUE, dir |-> value]
  /\ fs' = makedirs(fs, value)
  /\ ret' = Called("cache_dir", value, FALSE, Out0)
  /\ UNCHANGED <<cli, installs, tarballs, path, database, extra_prefixes,
                 tarRuns, chmodRuns>>

\* Library.extra_prefixes (setter)
SetExtraPrefixes(value) ==
  /\ Len(installs.items) + Len(tarballs.items) + Len(value) <= MaxSources
  /\ extra_prefixes' = value
  /\ ret' = Called("extra_prefixes", <<>>, FALSE, Out0)
  /\ UNCHANGED <<cli, installs, tarballs, path, database, cachedir, fs,
                 tarRuns, chmodRuns>>

PrependDirPath(p, lib) ==
  /\ LET out == prepend_dir_path(p, lib)
     IN  ret' = Called("prepend_dir_path", p, lib, out) /\ Effects(out)
  /\ UNCHANGED <<cli, installs, tarballs, path, database, cachedir, extra_prefixes>>

CheckInstalls ==
  /\ LET out == check_installs
     IN  ret' = Called("check_installs", <<>>, FALSE, out) /\ Effects(out)
  /\ UNCHANGED <<cli, installs, tarballs, path, database, cachedir, extra_prefixes>>

ExtractTarballs(fail) ==
  /\ LET out == extract_tarballs(fail)
     IN  ret' = Called("extract_tarballs", <<>>, FALSE, out) /\ Effects(out)
  /\ UNCHANGED <<cli, installs, tarballs, path, database, cachedir, extra_prefixes>>

ExtractTechnologyFiles(fail) ==
  /\ LET out == extract_technology_files(fail)
     IN  ret' = Called("extract_technology_files", <<>>, FALSE, out) /\ Effects(out)
  /\ UNCHANGED <<cli, installs, tarballs, path, database, cachedir, extra_prefixes>>

\* -------------------------------------------- the command-line driver
\* cli_driver.py. What hammer_vlsi.HammerDriver answers is the driver's to
\* say: whether the tool loads, and whether the run gives a dict or None.
NoHandler == "None"

\* lines 21-32
action_map ==
  [a \in {"synthesis", "syn", "par", "synthesis_to_par", "synthesis-to-par",
          "syn_to_par", "syn-to-par", "synthesis_par"} |->
     CASE a \in {"synthesis", "syn"} -> "synthesis_action"
       [] a = "par" -> "par_action"
       [] a \in {"synthesis_to_par", "synthesis-to-par", "syn_to_par",
                 "syn-to-par"} -> "synthesis_to_par_action"
       [] a = "synthesis_par" -> NoHandler]

\* lines 151-153
valid_actions == DOMAIN action_map

\* The arguments main is given: args['action'], args['firrtl'] and the step
\* control; the config lists, the log and the object directory are None.
\* An argument is None, or a list, or a string.
NoneList == [given |-> FALSE, value |-> <<>>]
NoneStr == [given |-> FALSE, value |-> ""]
Given(v) == [given |-> TRUE, value |-> v]
ActionArgs == valid_actions \cup {"", "place"}
FirrtlArgs == {NoneList, Given(<<>>), Given(<<"a.fir">>)}
StepArgs == {NoneStr, Given(""), Given("s")}
Args ==
  [action : ActionArgs, firrtl : FirrtlArgs, from_step : StepArgs,
   to_step : StepArgs, only_step : StepArgs]
Drivers == [load : BOOLEAN, output : {"None", "dict"}]

\* lines 143-148
get_nonempty_str(arg) ==
  IF arg.given /\ arg.value # "" THEN arg ELSE NoneStr

\* lines 52-140: the errors args_to_driver returns beside the driver
args_to_driver(args) ==
  LET from_step == get_nonempty_str(args.from_step)
      to_step == get_nonempty_str(args.to_step)
      only_step == get_nonempty_str(args.only_step)
  IN  IF (from_step.given \/ to_step.given) /\ only_step.given
      THEN <<"Cannot specify from_step/to_step and only_step">>
      ELSE <<>>

\* A run of main: how it ended, what it printed, what it called and wrote.
Run0 ==
  [ran |-> FALSE, action |-> "", args |-> <<>>, err |-> "none", value |-> <<>>,
   stderr |-> <<>>, handler |-> "none", calls |-> <<>>, written |-> FALSE]
Exit(run, code) == [run EXCEPT !.value = <<code>>]
Say(run, line) == [run EXCEPT !.stderr = Append(@, line)]
DriverCall(run, method) == [run EXCEPT !.calls = Append(@, method)]

\* lines 156-163: the run, and the output_config the action returns
synthesis_action(run, driver) ==
  LET loaded == DriverCall(run, "load_synthesis_tool")
  IN  IF ~driver.load THEN <<loaded, "None">>
      ELSE <<DriverCall(loaded, "run_synthesis"), driver.output>>

\* lines 166-173
par_action(run, driver) ==
  LET loaded == DriverCall(run, "load_par_tool")
  IN  IF ~driver.load THEN <<loaded, "None">>
      ELSE <<DriverCall(loaded, "run_par"), driver.output>>

\* lines 176-180
synthesis_to_par_action(run, driver) ==
  <<DriverCall(run, "generate_par_inputs_from_synthesis"), driver.output>>

\* line 195: action_map()[action](driver, errors.append)
call_action(run, handler, driver) ==
  LET called == [run EXCEPT !.handler = handler]
  IN  CASE handler = "synthesis_action" -> synthesis_action(called, driver)
        [] handler = "par_action" -> par_action(called, driver)
        [] handler = "synthesis_to_par_action" ->
             synthesis_to_par_action(called, driver)
        [] handler = NoHandler ->
             <<Raise(called, "TypeError:not_callable"), "None">>

\* lines 196-207: what main does with the output_config
report(run, output_config, errors) ==
  IF output_config = "None"
  THEN Exit([run EXCEPT !.stderr = @ \o <<"Action failed with errors">> \o errors],
            1)
  ELSE Exit([run EXCEPT !.written = TRUE], 0)

\* lines 183-207
main(args, driver) ==
  LET run == [Run0 EXCEPT !.ran = TRUE, !.action = args.action, !.args = args]
  IN  IF args.action \notin valid_actions
        THEN Exit(Say(run, "Invalid action"), 1)
      ELSE IF args.firrtl.given /\ Len(args.firrtl.value) > 0
        THEN Exit(Say(run, "firrtl convenience argument not yet implemented"), 1)
      ELSE
        LET errors == args_to_driver(args)
            done == call_action(run, action_map[args.action], driver)
        IN  IF done[1].err # "none" THEN done[1]
            ELSE report(done[1], done[2], errors)

Main(args, driver) ==
  /\ cli' = main(args, driver)
  /\ UNCHANGED <<installs, tarballs, path, database, cachedir, extra_prefixes,
                 fs, tarRuns, chmodRuns, ret>>

\* ------------------------------------------------------- specification
\* The technology documents: each field absent or a list of declarations.
DeclFields(S, n) == {None} \cup {Declared(s) : s \in SeqsUpTo(S, n)}

\* HammerTechnology.load_from_json: the object as constructed, nothing set.
Init ==
  /\ installs \in DeclFields(InstallDecls, MaxSources)
  /\ tarballs \in DeclFields(TarballDecls, MaxSources)
  /\ Len(installs.items) + Len(tarballs.items) <= MaxSources
  /\ path = TechPath
  /\ database = [set |-> FALSE, map |-> <<>>]
  /\ cachedir = [set |-> FALSE, dir |-> <<>>]
  /\ extra_prefixes = <<>>
  /\ fs = {TechPath, SettingValue("V")}
  /\ tarRuns = [t \in TargetDirs |-> 0]
  /\ chmodRuns = [t \in TargetDirs |-> 0]
  /\ ret = Called("load_from_json", <<>>, FALSE, Out0)
  /\ cli = Run0

Next ==
  \/ \E db \in Databases : SetDatabase(db)
  \/ \E value \in CacheDirs : SetCacheDir(value)
  \/ \E value \in SeqsUpTo(PathPrefixes, MaxSources) : SetExtraPrefixes(value)
  \/ \E p \in Paths, lib \in BOOLEAN : PrependDirPath(p, lib)
  \/ CheckInstalls
  \/ \E fail \in Failures : ExtractTarballs(fail)
  \/ \E fail \in Failures : ExtractTechnologyFiles(fail)

Spec == Init /\ [][Next]_vars

\* The command-line driver alone, before any technology is loaded.
InitCli == Init /\ installs = None /\ tarballs = None
NextCli == \E args \in Args, driver \in Drivers : Main(args, driver)
SpecCli == InitCli /\ [][NextCli]_vars

\* ================================================================ claims
\* What the claims speak of, counted from the state and not by the code.
Resolved == ret.op = "prepend_dir_path"
Relative(p) == Len(p) > 0 /\ p[1] # Sep

\* The first segment of a relative path: what precedes its first separator.
FirstSegment(p) ==
  IF \E i \in 1..Len(p) : p[i] = Sep
  THEN SubSeq(p, 1, (CHOOSE i \in 1..Len(p) :
                       p[i] = Sep /\ \A j \in 1..(i - 1) : p[j] # Sep) - 1)
  ELSE p

InstallsFor(seg) ==
  {i \in 1..Len(installs.items) : installs.items[i].path = seg}
TarballsFor(seg) ==
  {i \in 1..Len(tarballs.items) : tarballs.items[i].path = seg}
PrefixesFor(seg, lib) ==
  IF lib THEN {i \in 1..Len(extra_prefixes) : extra_prefixes[i].prefix = seg}
  ELSE {}
Candidates(seg, lib) ==
  Cardinality(InstallsFor(seg)) + Cardinality(TarballsFor(seg))
    + Cardinality(PrefixesFor(seg, lib))

\* The last call resolved a relative path with n, m and k matches.
ResolvedWith(n, m, k) ==
  /\ Resolved
  /\ Relative(ret.arg)
  /\ Cardinality(InstallsFor(FirstSegment(ret.arg))) = n
  /\ Cardinality(TarballsFor(FirstSegment(ret.arg))) = m
  /\ Cardinality(PrefixesFor(FirstSegment(ret.arg), ret.lib)) = k

\* The error names of the specification.
AmbiguousPathError == "ValueError:multiple_match"
UnresolvedPathError == "ValueError:no_match"

\* C1: a relative path whose first segment matches two or more of the
\* installs, the tarballs and the extra prefixes of the library passed makes
\* prepend_dir_path fail with the ambiguous-match error, and no path is
\* returned.
C1_AmbiguousFails ==
  (Resolved /\ Relative(ret.arg)
     /\ Candidates(FirstSegment(ret.arg), ret.lib) >= 2)
  => (ret.err = AmbiguousPathError /\ ret.value = <<>>)

\* C1's case: one install and one tarball answer for the same segment.
C1_Witness ==
  /\ ResolvedWith(1, 1, 0)
  /\ ret.err = AmbiguousPathError

\* C2: a relative path whose first segment matches no install, no tarball
\* and no extra prefix of the library passed (none when no library is
\* passed) makes prepend_dir_path fail with the no-match error, which is not
\* the ambiguous-match error.
C2_UnmatchedFails ==
  (Resolved /\ Relative(ret.arg)
     /\ Candidates(FirstSegment(ret.arg), ret.lib) = 0)
  => (ret.err = UnresolvedPathError /\ ret.err # AmbiguousPathError
        /\ ret.value = <<>>)

\* C2's case: the library holds a prefix for the segment, and no library is
\* passed.
C2_Witness ==
  /\ ResolvedWith(0, 0, 0)
  /\ ~ret.lib
  /\ \E i \in 1..Len(extra_prefixes) :
        extra_prefixes[i].prefix = FirstSegment(ret.arg)
  /\ ret.err = UnresolvedPathError

\* C3: a non-empty path that begins with the separator is returned as it
\* is, whatever the document declares, and neither the settings database
\* nor the cache directory is read.
C3_AbsoluteUnchanged ==
  (Resolved /\ Len(ret.arg) > 0 /\ ret.arg[1] = Sep)
  => (ret.err = "none" /\ ret.value = ret.arg /\ ret.lookups = <<>>
        /\ ~ret.cacheRead)

\* C3's case: an absolute path resolved with no database and no cache
\* directory set, its second segment declared twice.
C3_Witness ==
  /\ Resolved
  /\ ret.arg = <<Sep, "a">>
  /\ ret.value = ret.arg
  /\ ~database.set /\ ~cachedir.set
  /\ Cardinality(InstallsFor(<<"a">>)) = 2

\* The install that answers for the path of the last call.
TheInstall ==
  installs.items[CHOOSE i \in InstallsFor(FirstSegment(ret.arg)) : TRUE]

\* What follows the first segment and its separator.
AfterFirstSegment(p) ==
  SubSeq(p, Len(FirstSegment(p)) + 1, Len(p))
NoDoubleSep(p) == \A i \in 1..(Len(p) - 1) : ~(p[i] = Sep /\ p[i + 1] = Sep)

\* The result C4 states for an install whose base directory is base.
InstallResult(base) ==
  /\ ret.err = "none"
  /\ ret.value = join_from(base, Tail(split(ret.arg)))
  /\ FirstSegment(ret.arg) = ret.arg => ret.value = base
  /\ NoDoubleSep(ret.arg) => ret.value = base \o AfterFirstSegment(ret.arg)

\* C4: a relative path matched by exactly one install and nothing else
\* resolves to the join of a base and the rest of the path, the first segment
\* dropped: the base is the technology folder when base_var is empty (nothing
\* is looked up) and the setting base_var otherwise; a base_var the database
\* does not hold makes the call fail with SettingNotFoundError.
C4_InstallResolves ==
  ResolvedWith(1, 0, 0)
  => IF TheInstall.base_var = ""
       THEN InstallResult(path) /\ ret.lookups = <<>>
     ELSE IF ~database.set
       THEN ret.err = "ValueError:no_database" /\ ret.value = <<>>
     ELSE IF TheInstall.base_var \in DOMAIN database.map
       THEN /\ InstallResult(database.map[TheInstall.base_var])
            /\ ret.lookups = <<TheInstall.base_var>>
     ELSE ret.err = "SettingNotFoundError" /\ ret.value = <<>>

\* C4's case: the base comes from the settings database and a rest follows.
C4_Witness ==
  /\ ResolvedWith(1, 0, 0)
  /\ TheInstall.base_var = "V"
  /\ ret.arg = <<"a", Sep, "a">>
  /\ ret.value = <<Sep, "x", Sep, "a">>

\* The tarball, or the extra prefix, that answers for the path of the last
\* call.
TheTarball ==
  tarballs.items[CHOOSE i \in TarballsFor(FirstSegment(ret.arg)) : TRUE]
ThePrefix ==
  extra_prefixes[CHOOSE i \in PrefixesFor(FirstSegment(ret.arg), ret.lib) : TRUE]

\* <cache_dir>/extracted/<tarball.path>, for the cache directory as set.
TargetOf(tarball) ==
  cachedir.dir \o <<Sep>> \o Extracted \o <<Sep>> \o tarball.path

DiskUnchanged ==
  /\ fs' = fs
  /\ tarRuns' = tarRuns
  /\ chmodRuns' = chmodRuns

IsPrefixOf(a, b) == Len(a) <= Len(b) /\ SubSeq(b, 1, Len(a)) = a

\* C6: with a library passed, a relative path matched by exactly one of its
\* extra prefixes and by no install or tarball resolves to a path under the
\* prefix's directory, for every rest, the empty one included.
C6_PrefixResolves ==
  ResolvedWith(0, 0, 1)
  => /\ ret.err = "none"
     /\ IsPrefixOf(ThePrefix.path, ret.value)
     /\ NoDoubleSep(ret.arg) /\ FirstSegment(ret.arg) # ret.arg
          => ret.value = ThePrefix.path \o AfterFirstSegment(ret.arg)

\* C6 where the code agrees with it: a separator follows the first segment.
C6_PrefixResolvesWithRest ==
  (ResolvedWith(0, 0, 1) /\ FirstSegment(ret.arg) # ret.arg)
  => /\ ret.err = "none"
     /\ ret.value = join2(ThePrefix.path, join_from(<<>>, Tail(split(ret.arg))))
     /\ NoDoubleSep(ret.arg)
          => ret.value = ThePrefix.path \o AfterFirstSegment(ret.arg)

\* Every declared tarball has its extraction directory on disk.
AllExtracted ==
  \A i \in 1..Len(tarballs.items) :
     cachedir.set /\ isdir(fs, TargetOf(tarballs.items[i]))

\* C7: tar and chmod each run at most once into a target directory; a call of
\* extract_tarballs that ends without error leaves every target directory on
\* disk; and a call that finds them all there runs nothing and leaves the
\* disk as it is.
C7_ExtractOnce ==
  [][/\ \A t \in TargetDirs : tarRuns'[t] <= 1 /\ chmodRuns'[t] <= 1
     /\ (ret'.calls = <<"extract_tarballs">> /\ ret'.err = "none")
          => AllExtracted'
     /\ (ret'.calls = <<"extract_tarballs">> /\ tarballs.declared /\ AllExtracted)
          => (DiskUnchanged /\ ret'.trace = <<>>)]_vars

\* C7's case: a second call, after a first that extracted every tarball.
C7_Witness ==
  /\ ret.op = "extract_tarballs"
  /\ ret.err = "none"
  /\ ret.trace = <<>>
  /\ Len(tarballs.items) = 2
  /\ \A i \in 1..Len(tarballs.items) :
        /\ tarRuns[TargetOf(tarballs.items[i])] = 1
        /\ chmodRuns[TargetOf(tarballs.items[i])] = 1

\* C8: resolving a path matched by one install, or by one extra prefix,
\* changes nothing on disk, in the document, in the library's extra prefixes
\* or in the settings, and does not read the cache directory.
C8_ResolveReadsOnly ==
  [][(ResolvedWith(1, 0, 0)' \/ ResolvedWith(0, 0, 1)')
       => /\ DiskUnchanged
          /\ UNCHANGED <<installs, tarballs, path, extra_prefixes, database,
                         cachedir>>
          /\ ~ret'.cacheRead
          /\ ret'.trace = <<>>
          /\ ret'.err # "ValueError:no_cache_dir"]_vars

\* C8's case: an install-backed path returned with no cache directory set.
C8_Witness ==
  /\ ResolvedWith(1, 0, 0)
  /\ ret.err = "none"
  /\ ret.value = <<Sep, "x", Sep, "a">>
  /\ ~cachedir.set

\* The installs check_installs has to look at, and what it finds.
NeedsCheck(i) == installs.items[i].base_var # ""
Resolves(i) ==
  database.set /\ installs.items[i].base_var \in DOMAIN database.map
InstallPath(i) == database.map[installs.items[i].base_var]
Present(i) == Resolves(i) /\ exists(fs, InstallPath(i))
FirstMissing(i) ==
  /\ NeedsCheck(i) /\ Resolves(i) /\ ~exists(fs, InstallPath(i))
  /\ \A j \in 1..(i - 1) : NeedsCheck(j) => Present(j)

\* The base_vars of the first i installs that are not blank, in order.
CheckedVars(i) ==
  LET NonBlank(d) == d.base_var # ""
      s == SelectSeq(SubSeq(installs.items, 1, i), NonBlank)
  IN  [k \in 1..Len(s) |-> s[k].base_var]

\* C9: check_installs returns True exactly when every install with a
\* non-empty base_var resolves to a path that exists; at the first install
\* whose resolved path is missing it logs that path and returns False without
\* raising and without looking at a later install; it changes nothing.
C9_CheckInstalls ==
  [][(ret'.op = "check_installs" /\ installs.declared)
       => /\ ret'.bool = "True"
               <=> \A i \in 1..Len(installs.items) : NeedsCheck(i) => Present(i)
          /\ \A i \in 1..Len(installs.items) :
               FirstMissing(i)
               => /\ ret'.err = "none"
                  /\ ret'.bool = "False"
                  /\ ret'.log = <<[level |-> "error",
                                   what |-> "installs does not exist",
                                   arg |-> InstallPath(i)]>>
                  /\ ret'.lookups = CheckedVars(i)
          /\ DiskUnchanged
          /\ UNCHANGED <<installs, tarballs, path, extra_prefixes, database,
                         cachedir>>]_vars

\* C9's case: the first install is missing on disk, and the second, whose
\* base_var the database does not hold, is not looked at.
C9_Witness ==
  /\ ret.op = "check_installs"
  /\ ret.bool = "False"
  /\ ret.err = "none"
  /\ Len(installs.items) = 2
  /\ ret.lookups = <<installs.items[1].base_var>>
  /\ NeedsCheck(2) /\ ~Resolves(2)

\* The base_vars of the declared tarballs, in order.
TarballVars == [k \in 1..Len(tarballs.items) |-> tarballs.items[k].base_var]

\* C10: extract_technology_files runs check_installs and no extraction when
\* installs are declared, tarballs or not; extract_tarballs, over every
\* declared tarball, when tarballs are declared and installs are not; and
\* neither, logging an error, when neither is declared.
C10_OneStrategy ==
  ret.op = "extract_technology_files"
  => IF installs.declared
       THEN ret.calls = <<"check_installs">> /\ ret.trace = <<>>
     ELSE IF tarballs.declared
       THEN /\ ret.calls = <<"extract_tarballs">>
            /\ ret.err = "none" => (AllExtracted /\ ret.lookups = TarballVars)
     ELSE /\ ret.calls = <<>> /\ ret.trace = <<>> /\ ret.err = "none"
          /\ Len(ret.log) = 1 /\ ret.log[1].level = "error"

\* C10's case: installs and a tarball are declared, the cache directory is
\* set, and the tarball is left unextracted.
C10_Witness ==
  /\ ret.op = "extract_technology_files"
  /\ installs.declared /\ Len(tarballs.items) = 1
  /\ ret.calls = <<"check_installs">>
  /\ cachedir.set /\ database.set
  /\ ~AllExtracted

\* The errors of a failed extraction step, and the calls that extract.
ExtractionErrors == {"CalledProcessError:tar", "CalledProcessError:chmod"}
Extracting(r) == r.calls = <<"extract_tarballs">>
LastStep(r) == r.trace[Len(r.trace)]

\* C11: a non-zero exit of tar or of chmod ends the call, and the load step
\* around it, with that error at the failed step; nothing is rolled back, the
\* target directory made before the failed step is on disk afterwards; and a
\* target directory that is on disk stays there and has neither tar nor chmod
\* run into it by any later call.
C11_FailureNotRolledBack ==
  [][/\ (Extracting(ret') /\ ret'.err \in ExtractionErrors)
          => /\ ret'.trace # <<>>
             /\ ret'.err = "CalledProcessError:" \o LastStep(ret').step
             /\ isdir(fs', LastStep(ret').target)
             /\ fs \subseteq fs'
             /\ ret'.value = <<>>
     /\ \A t \in TargetDirs :
          isdir(fs, t)
          => /\ isdir(fs', t)
             /\ tarRuns'[t] = tarRuns[t]
             /\ chmodRuns'[t] = chmodRuns[t]
             /\ \A k \in 1..Len(ret'.trace) : ret'.trace[k].target # t]_vars

\* C11's case: tar failed in an earlier call of the load step, and the call
\* after it has found the directory, run nothing and ended without error.
C11_Witness ==
  /\ ret.op = "extract_technology_files"
  /\ Extracting(ret)
  /\ ret.err = "none"
  /\ ret.trace = <<>>
  /\ Len(tarballs.items) = 1
  /\ isdir(fs, TargetOf(tarballs.items[1]))
  /\ tarRuns[TargetOf(tarballs.items[1])] = 1
  /\ chmodRuns[TargetOf(tarballs.items[1])] = 0

\* The last call needed the cache directory: it resolved a path matched by
\* one tarball, or it extracted a document that declares a tarball.
NeedsCacheDir ==
  \/ ResolvedWith(0, 1, 0)
  \/ Extracting(ret) /\ Len(tarballs.items) > 0

\* C12: assigning the cache directory never fails and leaves the directory
\* on disk, made if it was absent and the disk as it was if it was there, so
\* the cache directory, once set, is on disk; and a call that needs the cache
\* directory before any assignment fails with the cache-directory error,
\* returns nothing and touches nothing.
C12_CacheDirMadeOrMissing ==
  [][/\ ret'.op = "cache_dir"
          => /\ ret'.err = "none"
             /\ cachedir' = [set |-> TRUE, dir |-> ret'.arg]
             /\ isdir(fs', ret'.arg)
             /\ fs \subseteq fs'
             /\ isdir(fs, ret'.arg) => fs' = fs
     /\ cachedir'.set => isdir(fs', cachedir'.dir)
     /\ (~cachedir'.set /\ NeedsCacheDir')
          => /\ ret'.err = "ValueError:no_cache_dir"
             /\ ret'.cacheRead
             /\ ret'.value = <<>>
             /\ ret'.trace = <<>>
             /\ DiskUnchanged]_vars

\* C12's case: the cache directory is assigned again after tarballs were
\* extracted under it.
C12_Witness ==
  /\ ret.op = "cache_dir"
  /\ ret.err = "none"
  /\ \E t \in TargetDirs : tarRuns[t] = 1 /\ isdir(fs, t)

\* The archive of a tarball as the claims state it, for a base directory.
SourceArchive(base, tarball) == base \o <<Sep>> \o tarball.path

\* The first tarball declared for a target directory: the one tar runs for.
TarballOf(target) ==
  tarballs.items[CHOOSE i \in 1..Len(tarballs.items) :
                   /\ TargetOf(tarballs.items[i]) = target
                   /\ \A j \in 1..(i - 1) : TargetOf(tarballs.items[j]) # target]
TarSteps == {k \in 1..Len(ret.trace) : ret.trace[k].step = "tar"}

\* C13, as the specification states it: a tarball with an empty base_var has
\* its archive taken from the technology folder and nothing looked up for it,
\* and a tarball with a base_var set has it taken from that setting.
C13_BlankIsTechRoot ==
  (Extracting(ret) /\ tarballs.declared)
  => /\ \A k \in 1..Len(ret.lookups) : ret.lookups[k] # ""
     /\ \A k \in TarSteps :
          ret.trace[k].src =
            SourceArchive(IF TarballOf(ret.trace[k].target).base_var = ""
                            THEN path
                            ELSE database.map[TarballOf(ret.trace[k].target).base_var],
                          TarballOf(ret.trace[k].target))
     /\ (cachedir.set /\ Len(tarballs.items) = 1
           /\ tarballs.items[1].base_var = "")
          => ret.err \in {"none"} \cup ExtractionErrors

\* C13, amended: the base_var of every tarball the call comes to is looked up
\* in the settings, the empty one as the key "", in declaration order; tar is
\* given the archive under the directory the lookup returned and never one
\* under the technology folder; and the call ends without error only if the
\* settings hold every base_var.
C13_TarballVarLookedUp ==
  (Extracting(ret) /\ tarballs.declared)
  => /\ IsPrefixOf(ret.lookups, TarballVars)
     /\ (cachedir.set /\ Len(tarballs.items) > 0)
          => (Len(ret.lookups) > 0 /\ ret.lookups[1] = tarballs.items[1].base_var)
     /\ \A k \in TarSteps :
          /\ TarballOf(ret.trace[k].target).base_var \in DOMAIN database.map
          /\ ret.trace[k].src =
               SourceArchive(database.map[TarballOf(ret.trace[k].target).base_var],
                             TarballOf(ret.trace[k].target))
          /\ ~IsPrefixOf(path, ret.trace[k].src)
     /\ ret.err = "none"
          => /\ ret.lookups = TarballVars
             /\ \A i \in 1..Len(tarballs.items) :
                  tarballs.items[i].base_var \in DOMAIN database.map

\* C13's case: a tarball with a base_var set is extracted from its setting,
\* and the tarball after it, its base_var empty, is looked up as "" and ends
\* the call.
C13_Witness ==
  /\ Extracting(ret)
  /\ Len(tarballs.items) = 2
  /\ ret.lookups = <<"V", "">>
  /\ Len(ret.trace) = 3
  /\ ret.trace[2].src = <<Sep, "x", Sep>> \o tarballs.items[1].path
  /\ ret.err = "SettingNotFoundError"

\* Where a target directory is first declared, and the steps of one kind in
\* the trace of a call.
IndexOf(target) ==
  CHOOSE i \in 1..Len(tarballs.items) :
    /\ TargetOf(tarballs.items[i]) = target
    /\ \A j \in 1..(i - 1) : TargetOf(tarballs.items[j]) # target
StepsOf(r, step) == {k \in 1..Len(r.trace) : r.trace[k].step = step}
Declares(target) ==
  \E i \in 1..Len(tarballs.items) : TargetOf(tarballs.items[i]) = target

\* C14: a call of extract_tarballs makes, extracts and repairs, in that
\* order and one tarball after the other in declaration order, the target
\* directories that were absent, and no other; chmod runs into a directory
\* only right after a tar into it that did not fail; the step that fails is
\* the last of the call; and a call that ends without error has extracted
\* every absent directory.
C14_StepsInOrder ==
  [][(Extracting(ret') /\ tarballs.declared)
       => /\ \A k \in 1..Len(ret'.trace) :
               ret'.trace[k].step \in {"makedirs", "tar", "chmod"}
          /\ \A k \in StepsOf(ret', "makedirs") :
               /\ Declares(ret'.trace[k].target)
               /\ ~isdir(fs, ret'.trace[k].target)
               /\ k = 1 \/ ret'.trace[k - 1].step = "chmod"
               /\ k < Len(ret'.trace)
               /\ ret'.trace[k + 1].step = "tar"
               /\ ret'.trace[k + 1].target = ret'.trace[k].target
          /\ \A k \in StepsOf(ret', "tar") :
               /\ k > 1
               /\ ret'.trace[k - 1].step = "makedirs"
               /\ ret'.trace[k - 1].target = ret'.trace[k].target
               /\ k < Len(ret'.trace)
                    => /\ ret'.trace[k + 1].step = "chmod"
                       /\ ret'.trace[k + 1].target = ret'.trace[k].target
               /\ k = Len(ret'.trace) => ret'.err = "CalledProcessError:tar"
          /\ \A k \in StepsOf(ret', "chmod") :
               /\ k > 1
               /\ ret'.trace[k - 1].step = "tar"
               /\ ret'.trace[k - 1].target = ret'.trace[k].target
               /\ k < Len(ret'.trace) => ret'.trace[k + 1].step = "makedirs"
          /\ ret'.err \in ExtractionErrors
               => /\ ret'.trace # <<>>
                  /\ ret'.err = "CalledProcessError:" \o LastStep(ret').step
          /\ (ret'.trace # <<>> /\ LastStep(ret').step = "tar")
               => ret'.err = "CalledProcessError:tar"
          /\ \A k1, k2 \in StepsOf(ret', "makedirs") :
               k1 < k2 => IndexOf(ret'.trace[k1].target)
                            < IndexOf(ret'.trace[k2].target)
          /\ ret'.err = "none"
               => \A i \in 1..Len(tarballs.items) :
                    ~isdir(fs, TargetOf(tarballs.items[i]))
                    => \E k \in StepsOf(ret', "chmod") :
                         ret'.trace[k].target = TargetOf(tarballs.items[i])]_vars

\* C14's case: the second tarball declared comes first by name; the first is
\* made, extracted and repaired, and tar fails for the second, which is made
\* and not repaired.
C14_Witness ==
  /\ Extracting(ret)
  /\ Len(tarballs.items) = 2
  /\ tarballs.items[1].path = <<"b">>
  /\ tarballs.items[2].path = <<"a">>
  /\ Len(ret.trace) = 5
  /\ ret.trace[1].target = TargetOf(tarballs.items[1])
  /\ ret.trace[3].step = "chmod"
  /\ ret.trace[5] = [step |-> "tar", target |-> TargetOf(tarballs.items[2]),
                     src |-> <<Sep, "x", Sep, "a">>]
  /\ ret.err = "CalledProcessError:tar"
  /\ chmodRuns[TargetOf(tarballs.items[2])] = 0

\* What main can call: the three actions of the driver.
Functions == {"synthesis_action", "par_action", "synthesis_to_par_action"}

\* C15: every key of the action map has a function for its handler, and a
\* run of main for a valid action calls that function and returns 0 or 1,
\* while a run for any other name returns 1 and says "Invalid action".
C15_ValidActionsHandled ==
  cli.ran
  => IF cli.action \in valid_actions
       THEN /\ action_map[cli.action] \in Functions
            /\ cli.handler \in Functions \cup {"none"}
            /\ cli.err = "none"
            /\ cli.value \in {<<0>>, <<1>>}
       ELSE /\ cli.value = <<1>>
            /\ cli.stderr = <<"Invalid action">>
            /\ cli.handler = "none"

\* C15 where the code agrees with it: every valid action but synthesis_par.
C15_ValidActionsButOne ==
  /\ \A a \in valid_actions \ {"synthesis_par"} : action_map[a] \in Functions
  /\ action_map["synthesis_par"] = NoHandler
  /\ (cli.ran /\ cli.action # "synthesis_par")
       => IF cli.action \in valid_actions
            THEN /\ cli.err = "none"
                 /\ cli.value \in {<<0>>, <<1>>}
                 /\ cli.handler \in {action_map[cli.action], "none"}
                 /\ cli.handler = "none"
                      <=> (cli.args.firrtl.given
                             /\ cli.args.firrtl.value # <<>>)
                 /\ cli.value = <<0>> <=> cli.written
            ELSE /\ cli.value = <<1>>
                 /\ cli.stderr = <<"Invalid action">>
                 /\ cli.handler = "none"

\* The run the claim fails for: synthesis_par is valid, and main raises.
C15_SynthesisParRaises ==
  (cli.ran /\ cli.action = "synthesis_par"
     /\ ~(cli.args.firrtl.given /\ cli.args.firrtl.value # <<>>))
  => (cli.err = "TypeError:not_callable" /\ cli.value = <<>>
        /\ cli.calls = <<>> /\ ~cli.written)

====
